---- MODULE Spec2Model ----
(***************************************************************************)
(* Model of evis.datasets.nmnist.NMNIST: the constructor with its          *)
(* download step, the fixed-layout binary event decoder                    *)
(* (decode_binary_to_npz) and the directory walk of decode().              *)
(*                                                                         *)
(* File and directory names are sequences of one-character strings, byte   *)
(* streams are sequences of numbers in 0..255, numpy arrays are sequences  *)
(* of numbers in 0..2^32-1 (dtype uint32).                                 *)
(***************************************************************************)
EXTENDS Integers, Sequences, FiniteSets, TLC

(* ------------------------------ bounds --------------------------------- *)

\* largest number of whole 5-byte groups in a decoded byte stream
MaxEvents == 2

\* largest number of decode() calls made on one object
MaxRuns == 2

\* largest number of download() calls made on one constructed object
MaxCalls == 2

\* largest number of binary files in the split directory
MaxFiles == 3

(* ------------------------- uint32 arithmetic --------------------------- *)

\* width of numpy.uint32
Width == 32

RECURSIVE Pow2(_)
Pow2(n) == IF n = 0 THEN 1 ELSE 2 * Pow2(n - 1)

RECURSIVE BitAnd(_, _)
BitAnd(a, b) ==
    IF a = 0 \/ b = 0 THEN 0
    ELSE (IF a % 2 = 1 /\ b % 2 = 1 THEN 1 ELSE 0)
         + 2 * BitAnd(a \div 2, b \div 2)

RECURSIVE BitOr(_, _)
BitOr(a, b) ==
    IF a = 0 THEN b
    ELSE IF b = 0 THEN a
    ELSE (IF a % 2 = 1 \/ b % 2 = 1 THEN 1 ELSE 0)
         + 2 * BitOr(a \div 2, b \div 2)

\* a << k on uint32: the k highest bits are dropped, the others move up
ShiftLeft(a, k) == (a % Pow2(Width - k)) * Pow2(k)

ShiftRight(a, k) == a \div Pow2(k)

(* --------------------------- numpy arrays ------------------------------ *)

\* data[k::5] for a one-dimensional array, k counted from 0
Slice(data, k) ==
    LET n == IF Len(data) <= k THEN 0 ELSE (Len(data) - k + 4) \div 5
    IN  [i \in 1..n |-> data[k + 1 + 5 * (i - 1)]]

\* the result of an array expression: a value, or the ValueError numpy
\* raises when two operands cannot be broadcast together
Arr(v) == [ok |-> TRUE, v |-> v]

ValueError == [ok |-> FALSE, v |-> <<>>]

\* a | b on two one-dimensional arrays under numpy's broadcasting rule
ArrayOr(a, b) ==
    IF ~a.ok \/ ~b.ok THEN ValueError
    ELSE IF Len(a.v) = Len(b.v)
         THEN Arr([i \in 1..Len(a.v) |-> BitOr(a.v[i], b.v[i])])
    ELSE IF Len(a.v) = 1
         THEN Arr([i \in 1..Len(b.v) |-> BitOr(a.v[1], b.v[i])])
    ELSE IF Len(b.v) = 1
         THEN Arr([i \in 1..Len(a.v) |-> BitOr(a.v[i], b.v[1])])
    ELSE ValueError

\* array & scalar
ArrayAndScalar(a, s) == [i \in 1..Len(a) |-> BitAnd(a[i], s)]

\* array << scalar
ArrayShl(a, k) == [i \in 1..Len(a) |-> ShiftLeft(a[i], k)]

\* array >> scalar
ArrayShr(a, k) == [i \in 1..Len(a) |-> ShiftRight(a[i], k)]

(* ------------------------ decode_binary_to_npz ------------------------- *)

\* x = data[5::5]: the first event is skipped
MutFieldX(data) == Slice(data, 5)

\* x = data[0::5]
FieldX(data) == Slice(data, 0)

\* y = data[1::5]
FieldY(data) == Slice(data, 1)

\* p = remaining_data & 128: the shift is left out
MutFieldP(data) == ArrayAndScalar(Slice(data, 2), 128)

\* p = (remaining_data & 128) >> 7
FieldP(data) == ArrayShr(ArrayAndScalar(Slice(data, 2), 128), 7)

\* ts with the high part shifted by 8 instead of 16
MutFieldTs(data) ==
    ArrayOr(ArrayOr(Arr(ArrayShl(ArrayAndScalar(Slice(data, 2), 127), 8)),
                    Arr(ArrayShl(Slice(data, 3), 8))),
            Arr(Slice(data, 4)))

\* ts = ((remaining_data & 127) << 16) | (data[3::5] << 8) | (data[4::5])
FieldTs(data) ==
    ArrayOr(ArrayOr(Arr(ArrayShl(ArrayAndScalar(Slice(data, 2), 127), 16)),
                    Arr(ArrayShl(Slice(data, 3), 8))),
            Arr(Slice(data, 4)))

\* the event_data dictionary handed to np.savez, or the ValueError raised
\* while it is computed
DecodeBinary(data) ==
    LET ts == FieldTs(data)
    IN  [ok |-> ts.ok,
         x  |-> IF ts.ok THEN FieldX(data) ELSE <<>>,
         y  |-> IF ts.ok THEN FieldY(data) ELSE <<>>,
         p  |-> IF ts.ok THEN FieldP(data) ELSE <<>>,
         ts |-> ts.v]

(* ------------------------------- state --------------------------------- *)

VARIABLES
    stream,     \* bytes of the file handed to a direct decode_binary_to_npz call
    npz,        \* the archive that call wrote
    derr,       \* the exception that call raised
    dirs,       \* names of the directories present under <root>/NMNIST
    cpc,        \* "new", "constructed" or "failed": outcome of NMNIST(...)
    args,       \* the arguments of the constructor call
    cerr,       \* the exception the last constructor or download() call raised
    fsLog,      \* the filesystem accesses made so far, in order
    dlCalls,    \* the calls of download_and_extract_archive made so far
    dlInvoked,  \* number of download() calls made on the constructed object
    src,        \* class directory -> (file name -> bytes) under <Split>
    out,        \* class directory -> (file name -> archive) under <Split>_npz
    orig,       \* src as it was before the first decode()
    pc,         \* position of decode()
    classTodo,  \* class directories the outer loop has still to visit
    fileTodo,   \* files of the current class directory still to visit
    curClass,   \* class_dir_name
    curFile,    \* bin_file
    data,       \* the bytes read from bin_file
    done,       \* <<class, file>> of every file unlinked so far
    runs,       \* number of decode() calls started
    failedAt    \* the step at which the last decode() raised

decoderVars == <<stream, npz, derr>>

ctorVars == <<dirs, cpc, args, cerr, fsLog, dlCalls, dlInvoked>>

walkVars == <<src, out, orig, pc, classTodo, fileTodo, curClass, curFile,
              data, done, runs, failedAt>>

vars == <<decoderVars, ctorVars, walkVars>>

(* --------------------------- archive files ----------------------------- *)

NoEvents == [x |-> <<>>, y |-> <<>>, p |-> <<>>, ts |-> <<>>]

\* no archive at the path
NoNpz == [state |-> "absent", events |-> NoEvents]

\* an archive np.savez began and did not finish
PartialNpz == [state |-> "partial", events |-> NoEvents]

\* np.savez(npz_file_path, ts=..., x=..., y=..., p=...)
Savez(ev) ==
    [state |-> "complete",
     events |-> [x |-> ev.x, y |-> ev.y, p |-> ev.p, ts |-> ev.ts]]

(* ------------------------------ inputs --------------------------------- *)

\* values of the five bytes of a group the decoder is tried on
Byte0 == {10, 255}
Byte1 == {20}
Byte2 == {127, 129, 255}
Byte3 == {2, 255}
Byte4 == {3, 0}

Groups ==
    { <<a, b, c, d, e>> :
        a \in Byte0, b \in Byte1, c \in Byte2, d \in Byte3, e \in Byte4 }

RECURSIVE GroupStreams(_)
GroupStreams(n) ==
    IF n = 0 THEN { <<>> }
    ELSE { s \o g : s \in GroupStreams(n - 1), g \in Groups }

\* an incomplete last group of 0 to 4 bytes
Tails == { SubSeq(<<255, 20, 129, 2>>, 1, k) : k \in 0..4 }

StreamInputs ==
    { s \o t : s \in UNION { GroupStreams(n) : n \in 0..MaxEvents },
               t \in Tails }

(* ------------------- idle values of the three parts -------------------- *)

DecoderIdle ==
    /\ stream = <<>>
    /\ npz = NoNpz
    /\ derr = "none"

NoArgs == [split |-> "none", download |-> FALSE]

CtorIdle ==
    /\ dirs = {}
    /\ cpc = "new"
    /\ args = NoArgs
    /\ cerr = "none"
    /\ fsLog = <<>>
    /\ dlCalls = <<>>
    /\ dlInvoked = 0

WalkIdle ==
    /\ src = << >>
    /\ out = << >>
    /\ orig = << >>
    /\ pc = "idle"
    /\ classTodo = {}
    /\ fileTodo = {}
    /\ curClass = "none"
    /\ curFile = <<>>
    /\ data = <<>>
    /\ done = {}
    /\ runs = 0
    /\ failedAt = "none"

(* ----------------- a direct call of decode_binary_to_npz --------------- *)

InitDecoder ==
    /\ stream \in StreamInputs
    /\ npz = NoNpz
    /\ derr = "none"
    /\ CtorIdle
    /\ WalkIdle

\* decode_binary_to_npz(file_decode_path, npz_file_path) on a file that
\* holds the bytes of stream
DecodeBinaryToNpz ==
    /\ npz.state = "absent"
    /\ derr = "none"
    /\ LET ev == DecodeBinary(stream)
       IN  IF ev.ok
           THEN /\ npz' = Savez(ev)
                /\ derr' = derr
           ELSE /\ npz' = npz
                /\ derr' = "ValueError"
    /\ UNCHANGED <<stream, ctorVars, walkVars>>

NextDecoder == DecodeBinaryToNpz

SpecDecoder == InitDecoder /\ [][NextDecoder]_vars

(* --------------------------- the constructor --------------------------- *)

\* the tuple ("train", "test") of the assertion in __init__
ValidSplits == {"train", "test"}

\* the split arguments the constructor is tried with
SplitInputs == ValidSplits \cup {"valid"}

urls ==
    [train |-> "https://data.mendeley.com/public-files/datasets/468j46mzdv/files/39c25547-014b-4137-a934-9d29fa53c7a0/file_downloaded",
     test  |-> "https://data.mendeley.com/public-files/datasets/468j46mzdv/files/05a4d654-7e03-4c15-bdfa-9bb2bcbea494/file_downloaded"]

md5s ==
    [train |-> "20959b8e626244a1b502305a9e6e2031",
     test  |-> "69ca8762b2fe404d9b9bad1103e97832"]

\* str.capitalize() on the split arguments
Capitalize(s) ==
    CASE s = "train" -> "Train"
      [] s = "test"  -> "Test"
      [] s = "valid" -> "Valid"

\* self._base_folder / self._split.capitalize(), relative to the base folder
SplitDir(split) == <<Capitalize(split)>>

\* self._base_folder / f"{self._split.capitalize()}_npz"
NpzDir(split) == <<Capitalize(split), "_npz">>

\* the directories an archive may hold or the base folder may contain
SplitDirs == { SplitDir(s) : s \in SplitInputs }

\* _check_exist() testing the base folder for any directory at all
MutCheckExist(split, d) == d # {}

\* _check_exist(): is_dir() on the split directory
CheckExist(split, d) == SplitDir(split) \in d

\* the record of one is_dir() call in fsLog
IsDirAccess(split) == <<"is_dir", SplitDir(split)>>

\* the keyword arguments download() passes to download_and_extract_archive
ArchiveCall(split) ==
    [url           |-> urls[split],
     download_root |-> "NMNIST",
     filename      |-> <<split, ".zip">>,
     md5           |-> md5s[split]]

\* what download_and_extract_archive may do: raise or return, having
\* extracted any set of directories into the base folder
Outcomes == [raised : BOOLEAN, made : SUBSET SplitDirs]

\* download() calling the collaborator whether or not the split directory
\* is there
MutDownloadEffect(split, d, o) ==
    [dirs |-> d \cup o.made, log |-> <<>>,
     calls |-> <<ArchiveCall(split)>>, raised |-> o.raised]

\* download(): the directories, filesystem accesses and collaborator calls
\* it leaves, and whether the collaborator raised
DownloadEffect(split, d, o) ==
    IF CheckExist(split, d)
    THEN [dirs |-> d, log |-> <<IsDirAccess(split)>>, calls |-> <<>>,
          raised |-> FALSE]
    ELSE [dirs |-> d \cup o.made, log |-> <<IsDirAccess(split)>>,
          calls |-> <<ArchiveCall(split)>>, raised |-> o.raised]

\* the effect of __init__ skipping download()
NoDownload(d) == [dirs |-> d, log |-> <<>>, calls |-> <<>>, raised |-> FALSE]

InitCtor ==
    /\ dirs \in SUBSET SplitDirs
    /\ cpc = "new"
    /\ args = NoArgs
    /\ cerr = "none"
    /\ fsLog = <<>>
    /\ dlCalls = <<>>
    /\ dlInvoked = 0
    /\ DecoderIdle
    /\ WalkIdle

\* __init__ checking the split argument only on the download path
MutConstruct(split, download, o) ==
    /\ cpc = "new"
    /\ args' = [split |-> split, download |-> download]
    /\ IF split \notin ValidSplits /\ download
       THEN /\ cpc' = "failed"
            /\ cerr' = "AssertionError"
            /\ UNCHANGED <<dirs, fsLog, dlCalls>>
       ELSE LET e == IF download THEN DownloadEffect(split, dirs, o)
                     ELSE NoDownload(dirs)
            IN  /\ dirs' = e.dirs
                /\ dlCalls' = dlCalls \o e.calls
                /\ IF e.raised
                   THEN /\ cpc' = "failed"
                        /\ cerr' = "DownloadError"
                        /\ fsLog' = fsLog \o e.log
                   ELSE /\ fsLog' = fsLog \o e.log \o <<IsDirAccess(split)>>
                        /\ IF CheckExist(split, e.dirs)
                           THEN /\ cpc' = "constructed"
                                /\ cerr' = "none"
                           ELSE /\ cpc' = "failed"
                                /\ cerr' = "RuntimeError: Dataset not found"
    /\ UNCHANGED <<dlInvoked, decoderVars, walkVars>>

\* NMNIST(root, split, download)
Construct(split, download, o) ==
    /\ cpc = "new"
    /\ args' = [split |-> split, download |-> download]
    /\ IF split \notin ValidSplits
       THEN /\ cpc' = "failed"
            /\ cerr' = "AssertionError"
            /\ UNCHANGED <<dirs, fsLog, dlCalls>>
       ELSE LET e == IF download THEN DownloadEffect(split, dirs, o)
                     ELSE NoDownload(dirs)
            IN  /\ dirs' = e.dirs
                /\ dlCalls' = dlCalls \o e.calls
                /\ IF e.raised
                   THEN /\ cpc' = "failed"
                        /\ cerr' = "DownloadError"
                        /\ fsLog' = fsLog \o e.log
                   ELSE /\ fsLog' = fsLog \o e.log \o <<IsDirAccess(split)>>
                        /\ IF CheckExist(split, e.dirs)
                           THEN /\ cpc' = "constructed"
                                /\ cerr' = "none"
                           ELSE /\ cpc' = "failed"
                                /\ cerr' = "RuntimeError: Dataset not found"
    /\ UNCHANGED <<dlInvoked, decoderVars, walkVars>>

\* download() called on a constructed object
Download(o) ==
    /\ cpc = "constructed"
    /\ dlInvoked < MaxCalls
    /\ dlInvoked' = dlInvoked + 1
    /\ LET e == DownloadEffect(args.split, dirs, o)
       IN  /\ dirs' = e.dirs
           /\ dlCalls' = dlCalls \o e.calls
           /\ fsLog' = fsLog \o e.log
           /\ cerr' = IF e.raised THEN "DownloadError" ELSE "none"
    /\ UNCHANGED <<cpc, args, decoderVars, walkVars>>

NextCtor ==
    \/ \E split \in SplitInputs, download \in BOOLEAN, o \in Outcomes :
          Construct(split, download, o)
    \/ \E o \in Outcomes : Download(o)

SpecCtor == InitCtor /\ [][NextCtor]_vars

(* ------------------------------ decode() ------------------------------- *)

\* the class directories of the split directory
ClassDirs == {"0", "1"}

\* "a.b.bin", "a.c.bin" and "b.bin"
FileNames ==
    { <<"a", ".", "b", ".", "b", "i", "n">>,
      <<"a", ".", "c", ".", "b", "i", "n">>,
      <<"b", ".", "b", "i", "n">> }

\* contents of the binary files: one event, another event, and 13 bytes
\* whose slices cannot be broadcast together
FileStreams ==
    { <<10, 20, 129, 2, 3>>,
      <<255, 20, 127, 255, 0>>,
      <<10, 20, 129, 2, 3, 255, 20, 127, 255, 0, 255, 20, 129>> }

\* the functions from a subset of D to R
PartialFunctions(D, R) == UNION { [S -> R] : S \in SUBSET D }

\* f with key k bound to v
Put(f, k, v) == [z \in DOMAIN f \cup {k} |-> IF z = k THEN v ELSE f[z]]

\* f without key k
Remove(f, k) == [z \in DOMAIN f \ {k} |-> f[z]]

\* name.split(".")[0]
SplitFirst(name) ==
    LET dots == { i \in 1..Len(name) : name[i] = "." }
    IN  IF dots = {} THEN name
        ELSE SubSeq(name, 1, (CHOOSE i \in dots : \A j \in dots : i <= j) - 1)

\* bin_file.parts[-1].split(".")[0] + ".npz"
TargetName(name) == SplitFirst(name) \o <<".", "n", "p", "z">>

\* number of files in a tree class directory -> (file name -> content)
RECURSIVE FileCount(_, _)
FileCount(tree, classes) ==
    IF classes = {} THEN 0
    ELSE LET c == CHOOSE z \in classes : TRUE
         IN  Cardinality(DOMAIN tree[c]) + FileCount(tree, classes \ {c})

\* an object constructed for the split "train", whose split directory holds
\* the class directories
Init ==
    /\ args = [split |-> "train", download |-> FALSE]
    /\ dirs = {SplitDir(args.split)}
    /\ cpc = "constructed"
    /\ cerr = "none"
    /\ fsLog = <<IsDirAccess(args.split)>>
    /\ dlCalls = <<>>
    /\ dlInvoked = 0
    /\ src \in [ClassDirs -> PartialFunctions(FileNames, FileStreams)]
    /\ FileCount(src, ClassDirs) <= MaxFiles
    /\ orig = src
    /\ out = [c \in {} |-> << >>]
    /\ pc = "idle"
    /\ classTodo = {}
    /\ fileTodo = {}
    /\ curClass = "none"
    /\ curFile = <<>>
    /\ data = <<>>
    /\ done = {}
    /\ runs = 0
    /\ failedAt = "none"
    /\ DecoderIdle

\* decode() is called: source_dir.iterdir() lists the class directories
DecodeBegin ==
    /\ cpc = "constructed"
    /\ pc \in {"idle", "failed"}
    /\ runs < MaxRuns
    /\ runs' = runs + 1
    /\ classTodo' = DOMAIN src
    /\ fileTodo' = {}
    /\ curClass' = "none"
    /\ curFile' = <<>>
    /\ data' = <<>>
    /\ failedAt' = "none"
    /\ pc' = "classes"
    /\ UNCHANGED <<src, out, orig, done, decoderVars, ctorVars>>

\* the outer loop takes class directory c: target_class_dir.mkdir(...), then
\* class_dir_name.iterdir() lists its files
EnterClass(c) ==
    /\ pc = "classes"
    /\ c \in classTodo
    /\ classTodo' = classTodo \ {c}
    /\ curClass' = c
    /\ dirs' = dirs \cup {NpzDir(args.split)}
    /\ out' = IF c \in DOMAIN out THEN out ELSE Put(out, c, << >>)
    /\ fileTodo' = DOMAIN src[c]
    /\ pc' = "files"
    /\ UNCHANGED <<src, orig, curFile, data, done, runs, failedAt,
                   decoderVars, cpc, args, cerr, fsLog, dlCalls, dlInvoked>>

\* the inner loop going on to the next file when a file cannot be read
MutOpenRead(f, ok) ==
    /\ pc = "files"
    /\ f \in fileTodo
    /\ fileTodo' = fileTodo \ {f}
    /\ curFile' = f
    /\ IF ok
       THEN /\ data' = src[curClass][f]
            /\ pc' = "write"
       ELSE /\ pc' = "files"
            /\ UNCHANGED data
    /\ UNCHANGED <<src, out, orig, classTodo, curClass, done, runs, failedAt,
                   decoderVars, ctorVars>>

\* the inner loop takes bin_file f; decode_binary_to_npz opens and reads it
OpenRead(f, ok) ==
    /\ pc = "files"
    /\ f \in fileTodo
    /\ fileTodo' = fileTodo \ {f}
    /\ curFile' = f
    /\ IF ok
       THEN /\ data' = src[curClass][f]
            /\ pc' = "write"
            /\ UNCHANGED failedAt
       ELSE /\ pc' = "failed"
            /\ failedAt' = "read"
            /\ UNCHANGED data
    /\ UNCHANGED <<src, out, orig, classTodo, curClass, done, runs,
                   decoderVars, ctorVars>>

\* decode() going on to bin_file.unlink() whether or not np.savez completed
MutWriteNpz(outcome) ==
    /\ pc = "write"
    /\ LET ev == DecodeBinary(data)
           t  == TargetName(curFile)
       IN  IF ~ev.ok
           THEN /\ pc' = "failed"
                /\ failedAt' = "decode"
                /\ UNCHANGED out
           ELSE /\ out' = IF outcome = "ok"
                          THEN [out EXCEPT ![curClass] = Put(@, t, Savez(ev))]
                          ELSE IF outcome = "partial"
                          THEN [out EXCEPT ![curClass] = Put(@, t, PartialNpz)]
                          ELSE out
                /\ pc' = "unlink"
                /\ UNCHANGED failedAt
    /\ data' = <<>>
    /\ UNCHANGED <<src, orig, classTodo, fileTodo, curClass, curFile,
                   done, runs, decoderVars, ctorVars>>

\* decode_binary_to_npz computes the four fields and calls np.savez, which
\* completes ("ok"), raises after it began the archive ("partial") or raises
\* before it touched the path ("refused")
WriteNpz(outcome) ==
    /\ pc = "write"
    /\ LET ev == DecodeBinary(data)
           t  == TargetName(curFile)
       IN  IF ~ev.ok
           THEN /\ pc' = "failed"
                /\ failedAt' = "decode"
                /\ UNCHANGED out
           ELSE IF outcome = "ok"
           THEN /\ out' = [out EXCEPT ![curClass] = Put(@, t, Savez(ev))]
                /\ pc' = "unlink"
                /\ UNCHANGED failedAt
           ELSE /\ out' = IF outcome = "partial"
                          THEN [out EXCEPT ![curClass] = Put(@, t, PartialNpz)]
                          ELSE out
                /\ pc' = "failed"
                /\ failedAt' = "write"
    /\ data' = <<>>
    /\ UNCHANGED <<src, orig, classTodo, fileTodo, curClass, curFile,
                   done, runs, decoderVars, ctorVars>>

\* bin_file.unlink()
Unlink ==
    /\ pc = "unlink"
    /\ src' = [src EXCEPT ![curClass] = Remove(@, curFile)]
    /\ done' = done \cup { <<curClass, curFile>> }
    /\ pc' = "files"
    /\ UNCHANGED <<out, orig, classTodo, fileTodo, curClass, curFile, data,
                   runs, failedAt, decoderVars, ctorVars>>

\* the inner loop is exhausted
LeaveClass ==
    /\ pc = "files"
    /\ fileTodo = {}
    /\ pc' = "classes"
    /\ UNCHANGED <<src, out, orig, classTodo, fileTodo, curClass, curFile,
                   data, done, runs, failedAt, decoderVars, ctorVars>>

\* the outer loop is exhausted: print("Decoded all the files. ")
DecodeEnd ==
    /\ pc = "classes"
    /\ classTodo = {}
    /\ pc' = "idle"
    /\ curClass' = "none"
    /\ curFile' = <<>>
    /\ UNCHANGED <<src, out, orig, classTodo, fileTodo, data, done, runs,
                   failedAt, decoderVars, ctorVars>>

WriteOutcomes == {"ok", "partial", "refused"}

Next ==
    \/ DecodeBegin
    \/ \E c \in ClassDirs : EnterClass(c)
    \/ \E f \in FileNames, ok \in BOOLEAN : OpenRead(f, ok)
    \/ \E outcome \in WriteOutcomes : WriteNpz(outcome)
    \/ Unlink
    \/ LeaveClass
    \/ DecodeEnd

Spec == Init /\ [][Next]_vars

(* ------------------- properties of the binary decoder ------------------ *)

\* the direct decode_binary_to_npz call has returned or raised
Called == npz.state # "absent" \/ derr # "none"

\* number of whole 5-byte groups of the stream
NumGroups == Len(stream) \div 5

\* byte k (0..4) of group i (1..NumGroups) of the stream
GroupByte(i, k) == stream[5 * (i - 1) + k + 1]

\* C1: for a stream whose length is a multiple of 5, entry i of x, y, p and
\* ts comes from group i: x = b0, y = b1, p = bit 7 of b2 and
\* ts = (b2 & 0x7F) * 2^16 + b3 * 2^8 + b4; the bytes 10, 20, 0x81, 2, 3
\* give x = 10, y = 20, p = 1, ts = 66051, and b2 = 0x7F gives p = 0 with
\* the high part of ts equal to 0x7F.
C1_FieldsOfGroup ==
    (Len(stream) % 5 = 0 /\ Called) =>
        /\ npz.state = "complete"
        /\ \A i \in 1..NumGroups :
              /\ i \in DOMAIN npz.events.x
              /\ i \in DOMAIN npz.events.y
              /\ i \in DOMAIN npz.events.p
              /\ i \in DOMAIN npz.events.ts
              /\ npz.events.x[i] = GroupByte(i, 0)
              /\ npz.events.y[i] = GroupByte(i, 1)
              /\ npz.events.p[i] = GroupByte(i, 2) \div 128
              /\ npz.events.p[i] \in {0, 1}
              /\ npz.events.ts[i] = (GroupByte(i, 2) % 128) * 65536
                                    + GroupByte(i, 3) * 256
                                    + GroupByte(i, 4)
              /\ GroupByte(i, 2) = 127 =>
                    /\ npz.events.p[i] = 0
                    /\ npz.events.ts[i] \div 65536 = 127
        /\ stream = <<10, 20, 129, 2, 3>> =>
              npz.events = [x |-> <<10>>, y |-> <<20>>, p |-> <<1>>,
                            ts |-> <<66051>>]

C1_Witness ==
    /\ stream = <<10, 20, 129, 2, 3, 255, 20, 127, 255, 0>>
    /\ npz.state = "complete"
    /\ npz.events.p = <<1, 0>>
    /\ npz.events.ts[1] = 66051

\* C2: for a stream of 5*n bytes the call writes exactly n values for each
\* of x, y, p and ts.
C2_EqualLengths ==
    (Len(stream) % 5 = 0 /\ Called) =>
        /\ npz.state = "complete"
        /\ Len(npz.events.x) = NumGroups
        /\ Len(npz.events.y) = NumGroups
        /\ Len(npz.events.p) = NumGroups
        /\ Len(npz.events.ts) = NumGroups

C2_Witness ==
    /\ Len(stream) = 5 * MaxEvents
    /\ npz.state = "complete"
    /\ Len(npz.events.ts) = MaxEvents

\* the five bytes [x, y, (p << 7) | (ts >> 16), (ts >> 8) & 0xFF, ts & 0xFF]
EncodeEvent(x, y, p, ts) ==
    <<x, y,
      BitOr(ShiftLeft(p, 7), ShiftRight(ts, 16)),
      BitAnd(ShiftRight(ts, 8), 255),
      BitAnd(ts, 255)>>

\* the byte stream of the events of an archive
Encode(ev) ==
    [j \in 1..(5 * Len(ev.x)) |->
        LET i == (j - 1) \div 5 + 1
        IN  EncodeEvent(ev.x[i], ev.y[i], ev.p[i], ev.ts[i])[((j - 1) % 5) + 1]]

\* C6: for a stream of 5*n bytes, re-encoding the decoded events gives the
\* stream back byte for byte.
C6_RoundTrip ==
    (Len(stream) % 5 = 0 /\ Called) =>
        /\ npz.state = "complete"
        /\ Len(npz.events.y) = Len(npz.events.x)
        /\ Len(npz.events.p) = Len(npz.events.x)
        /\ Len(npz.events.ts) = Len(npz.events.x)
        /\ Encode(npz.events) = stream

C6_Witness ==
    /\ Len(stream) = 10
    /\ stream[3] = 255
    /\ stream[8] = 127
    /\ npz.state = "complete"
    /\ Encode(npz.events) = stream

(* --------------------- properties of the constructor ------------------- *)

\* the split directory the claims name for a split: Train or Test
NamedSplitDir(split) == IF split = "train" THEN <<"Train">> ELSE <<"Test">>

\* C4: a constructor call with a split other than "train" or "test" fails,
\* for either value of download, before any existence check, download or
\* other filesystem access is made.
C4_InvalidSplitFailsFirst ==
    (cpc # "new" /\ args.split \notin {"train", "test"}) =>
        /\ cpc = "failed"
        /\ cerr = "AssertionError"
        /\ fsLog = <<>>
        /\ dlCalls = <<>>

C4_Witness ==
    /\ cpc = "failed"
    /\ args = [split |-> "valid", download |-> TRUE]
    /\ cerr = "AssertionError"
    /\ <<"Valid">> \in dirs

\* C5: a constructor call with a valid split, download disabled and no
\* split directory fails with 'Dataset not found' and makes no call of the
\* download collaborator; an object is constructed only when its split
\* directory exists.
C5_NotFoundWithoutDownload ==
    /\ ( /\ cpc # "new"
         /\ args.split \in {"train", "test"}
         /\ ~args.download
         /\ NamedSplitDir(args.split) \notin dirs ) =>
            /\ cpc = "failed"
            /\ cerr = "RuntimeError: Dataset not found"
            /\ dlCalls = <<>>
    /\ cpc = "constructed" => NamedSplitDir(args.split) \in dirs

C5_Witness ==
    /\ cpc = "failed"
    /\ args = [split |-> "train", download |-> FALSE]
    /\ dirs = { <<"Test">> }
    /\ cerr = "RuntimeError: Dataset not found"
    /\ dlCalls = <<>>

\* the collaborator call the claims expect for a split
ExpectedCall(split) ==
    [url           |-> urls[split],
     download_root |-> "NMNIST",
     filename      |-> <<split, ".zip">>,
     md5           |-> md5s[split]]

\* what a download() on the given split may do to dlCalls in one step
DownloadStep(split) ==
    IF NamedSplitDir(split) \in dirs
    THEN dlCalls' = dlCalls
    ELSE dlCalls' = Append(dlCalls, ExpectedCall(split))

\* C8: download(), called directly or by a constructor call with
\* download=True, leaves the collaborator alone when the split directory
\* exists and otherwise calls it exactly once with the URL, '<split>.zip'
\* and MD5 of the split; no other step calls it; and the constructor call
\* still fails with 'Dataset not found' when the split directory is absent
\* after the download returned.
C8_DownloadOnlyWhenAbsent ==
    [][ /\ (cpc = "new" /\ cpc' # "new") =>
              IF args'.split \in {"train", "test"} /\ args'.download
              THEN /\ DownloadStep(args'.split)
                   /\ cpc' = "constructed" =>
                         NamedSplitDir(args'.split) \in dirs'
                   /\ ( /\ NamedSplitDir(args'.split) \notin dirs'
                        /\ cerr' # "DownloadError" ) =>
                         /\ cpc' = "failed"
                         /\ cerr' = "RuntimeError: Dataset not found"
              ELSE dlCalls' = dlCalls
        /\ dlInvoked' # dlInvoked => DownloadStep(args.split)
        /\ (cpc # "new" /\ dlInvoked' = dlInvoked) => dlCalls' = dlCalls
      ]_vars

C8_Witness ==
    /\ cpc = "failed"
    /\ args = [split |-> "test", download |-> TRUE]
    /\ dlCalls = << ExpectedCall("test") >>
    /\ dirs = { <<"Train">> }
    /\ cerr = "RuntimeError: Dataset not found"

(* ------------------------ properties of decode() ----------------------- *)

\* the archive np.savez writes for the bytes b
ArchiveOf(b) == Savez(DecodeBinary(b))

\* the archive at name t of class directory c of the output tree
Archive(c, t) ==
    IF c \in DOMAIN out /\ t \in DOMAIN out[c] THEN out[c][t] ELSE NoNpz

\* the last decode() raised while it converted curFile
ConversionFailed == pc = "failed" /\ failedAt \in {"read", "decode", "write"}

\* C3: a step removes a source file only when the complete archive of that
\* file's bytes stands at its output path, and a step in which decode()
\* fails removes no source file.
C3_UnlinkOnlyAfterWrite ==
    [][ /\ \A c \in DOMAIN src : \A f \in DOMAIN src[c] :
              f \notin DOMAIN src'[c] =>
                  /\ pc = "unlink"
                  /\ Archive(c, TargetName(f)) = ArchiveOf(src[c][f])
        /\ pc' = "failed" => src' = src
      ]_vars

C3_Witness ==
    /\ pc = "failed"
    /\ failedAt = "write"
    /\ curFile \in DOMAIN src[curClass]
    /\ Archive(curClass, TargetName(curFile)).state = "partial"
    /\ done # {}

\* C7: when a first decode() has completed, every class directory of the
\* output tree holds as many archives as the class directory of the same
\* name held input files, each input's events in an archive of its own.
C7_OneOutputPerInput ==
    (pc = "idle" /\ runs = 1) =>
        \A c \in DOMAIN orig :
            /\ c \in DOMAIN out
            /\ Cardinality(DOMAIN out[c]) = Cardinality(DOMAIN orig[c])
            /\ \A f, g \in DOMAIN orig[c] :
                  f # g => TargetName(f) # TargetName(g)

C10_NoEventDataLost ==
    \A c \in DOMAIN orig : \A f \in DOMAIN orig[c] :
        \/ f \in DOMAIN src[c]
        \/ /\ c \in DOMAIN out
           /\ \E t \in DOMAIN out[c] : out[c][t] = ArchiveOf(orig[c][f])

====
